---------------------------- MODULE Spec2Model ----------------------------
(***************************************************************************)
(* A model of GeoEncode (geoencode.h / geoencode.cc): the 6-byte encoding  *)
(* of latitude-longitude coordinates, its decoder, and the decoder with a  *)
(* bounding box.                                                           *)
(*                                                                         *)
(* Representation of double values.  Every double the program handles is   *)
(* an angle; the model holds an angle as an integer number of "ticks",     *)
(* one tick being 1/Sub of a 16th of an arcsecond (the encoding's unit).   *)
(* Arithmetic on ticks is exact: the rounding error of IEEE doubles (about *)
(* 1e-14 degrees here) is not modelled, so a statement of this model about *)
(* a comparison of doubles is a statement about the exact values.          *)
(***************************************************************************)
EXTENDS Integers, Sequences, FiniteSets

VARIABLES
    lat,      \* latitude argument of the last encode() call (ticks)
    lon,      \* longitude argument of the last encode() call (ticks)
    result,   \* the std::string encode() appends to (a sequence of bytes)
    ok,       \* what the last encode() call returned
    value,    \* the buffer handed to the last decode() call
    coord,    \* the caller's LatLongCoord that decode() results are stored in
    box,      \* the arguments the DecoderWithBoundingBox was constructed with
    bb,       \* the fields of the DecoderWithBoundingBox object (or NoBox)
    ret,      \* what the last DecoderWithBoundingBox::decode() call returned
    op        \* the operation that ran last

vars == <<lat, lon, result, ok, value, coord, box, bb, ret, op>>

---------------------------------------------------------------------------
(* Bounds of the model. *)

\* Ticks per 16th of an arcsecond: the resolution of caller-supplied doubles.
Sub == 4
\* How many ticks around an edge value the argument sets reach.
Spread == 2
\* How many records encode() may append to one string.
MaxRecords == 2
\* How many whole turns (multiples of 360 degrees) a longitude argument is off.
MaxWrap == 1
\* How many threads share one DecoderWithBoundingBox.
MaxThreads == 2

---------------------------------------------------------------------------
(* Program constants. *)

\* 57600 = 3600 * 16: encoding units (16ths of an arcsecond) per degree.
UnitsPerDegree == 3600 * 16
\* 60 * 16: units per arcminute.
UnitsPerMinute == 60 * 16
\* 16: units per arcsecond.
UnitsPerSecond == 16
\* The multiplier of the longitude degrees in the first two bytes.
LatRange == 181
\* Length of a complete encoded coordinate.
RecordLen == 6

\* The double holding d degrees / m minutes / s seconds / x 16ths, in ticks.
Degrees(d) == d * UnitsPerDegree * Sub
Minutes(m) == m * UnitsPerMinute * Sub
Seconds(s) == s * UnitsPerSecond * Sub
Sec16ths(x) == x * Sub

---------------------------------------------------------------------------
(* C arithmetic. *)

\* int / int: truncation towards zero.
CDiv(a, b) == IF a >= 0 THEN a \div b ELSE -((-a) \div b)

\* int % int: the remainder has the sign of the dividend.
CMod(a, b) == a - b * CDiv(a, b)

\* fmod(x, y) for y > 0: the remainder has the sign of x.
fmod(x, y) == IF x >= 0 THEN x % y ELSE -((-x) % y)

\* A faulty round: conversion to int without rounding (truncation).
roundTruncates(x) == CDiv(x, Sub)

\* round(x * 57600.0) for the double x given in ticks: the nearest integer
\* number of units, halfway cases away from zero.
round(x) ==
    IF x >= 0 THEN (2 * x + Sub) \div (2 * Sub)
              ELSE -((2 * (-x) + Sub) \div (2 * Sub))

RECURSIVE BitOr(_, _)
\* a | b on non-negative integers.
BitOr(a, b) ==
    IF a = 0 THEN b
    ELSE IF b = 0 THEN a
    ELSE (IF a % 2 = 1 \/ b % 2 = 1 THEN 1 ELSE 0)
         + 2 * BitOr(a \div 2, b \div 2)

RECURSIVE BitAnd(_, _)
\* a & b on non-negative integers.
BitAnd(a, b) ==
    IF a = 0 \/ b = 0 THEN 0
    ELSE (IF a % 2 = 1 /\ b % 2 = 1 THEN 1 ELSE 0)
         + 2 * BitAnd(a \div 2, b \div 2)

\* a << n and a >> n on non-negative integers.
Shl(a, n) == a * 2^n
Shr(a, n) == a \div 2^n

\* char(x) as the decoder reads it back through unsigned char: x mod 256.
char(x) == x % 256

---------------------------------------------------------------------------
(* geoencode.cc: the codec. *)

\* A faulty split: the seconds are taken from what is left after the degrees,
\* the minutes not removed.
DegreesMinutesSecondsNoReduce(angle_16th_secs) ==
    LET degrees == CDiv(angle_16th_secs, UnitsPerDegree)
        a1      == CMod(angle_16th_secs, UnitsPerDegree)
        minutes == CDiv(a1, UnitsPerMinute)
    IN  [degrees  |-> degrees,
         minutes  |-> minutes,
         seconds  |-> CDiv(a1, UnitsPerSecond),
         sec16ths |-> CMod(a1, UnitsPerSecond)]

\* struct DegreesMinutesSeconds: an angle in units split into its parts.
DegreesMinutesSeconds(angle_16th_secs) ==
    LET degrees == CDiv(angle_16th_secs, UnitsPerDegree)
        a1      == CMod(angle_16th_secs, UnitsPerDegree)
        minutes == CDiv(a1, UnitsPerMinute)
        a2      == CMod(a1, UnitsPerMinute)
    IN  [degrees  |-> degrees,
         minutes  |-> minutes,
         seconds  |-> CDiv(a2, UnitsPerSecond),
         sec16ths |-> CMod(a2, UnitsPerSecond)]

\* A faulty wrap: negative longitudes get 360 added, but fmod is left out.
WrapLongitudeNoFmod(x) == IF x < 0 THEN x + Degrees(360) ELSE x

\* "Wrap longitude to range [0,360)": fmod, then add 360 if negative.
WrapLongitude(x) ==
    LET m == fmod(x, Degrees(360))
    IN  IF m < 0 THEN m + Degrees(360) ELSE m

\* The latitude in units that encode() computes.
EncodeLat16ths(la) == round(la + Degrees(90))

\* A faulty longitude: the longitude is kept at the poles.
EncodeLon16thsKeptAtPole(lat_16ths, lo) ==
    LET lon_16ths == round(lo)
    IN  IF lon_16ths = UnitsPerDegree * 360 THEN 0 ELSE lon_16ths

\* A faulty longitude: a longitude that rounds to 360 degrees is not folded.
EncodeLon16thsNoFold(lat_16ths, lo) ==
    IF lat_16ths = 0 \/ lat_16ths = UnitsPerDegree * 180 THEN 0 ELSE round(lo)

\* The longitude in units that encode() computes for a wrapped longitude lo
\* and the latitude lat_16ths: zero at a pole, and 360 degrees folded to 0.
EncodeLon16ths(lat_16ths, lo) ==
    IF lat_16ths = 0 \/ lat_16ths = UnitsPerDegree * 180
    THEN 0
    ELSE LET lon_16ths == round(lo)
         IN  IF lon_16ths = UnitsPerDegree * 360 THEN 0 ELSE lon_16ths

\* The bytes of PackBytes with the packing of the degrees (lat-degree and
\* lon-degree multipliers, byte order) and the shift of the latitude's
\* seconds / 15 left open.
PackBytesWith(lat_16ths, lon_16ths, latmul, lonmul, hifirst, secshift) ==
    LET lat_dms == DegreesMinutesSeconds(lat_16ths)
        lon_dms == DegreesMinutesSeconds(lon_16ths)
        dd      == lat_dms.degrees * latmul + lon_dms.degrees * lonmul
        hi      == char(Shr(dd, 8))
        lo      == char(BitAnd(dd, 255))
    IN  << IF hifirst THEN hi ELSE lo,
           IF hifirst THEN lo ELSE hi,
           char(BitOr(Shl(lat_dms.minutes \div 4, 4), lon_dms.minutes \div 4)),
           char(BitOr(BitOr(Shl(lat_dms.minutes % 4, 6),
                            Shl(lon_dms.minutes % 4, 4)),
                      BitOr(Shl(lat_dms.seconds \div 15, secshift),
                            lon_dms.seconds \div 15))),
           char(BitOr(Shl(lat_dms.seconds % 15, 4), lon_dms.seconds % 15)),
           char(BitOr(Shl(lat_dms.sec16ths, 4), lon_dms.sec16ths)) >>

\* A faulty packing: the degrees are stored low byte first.
PackBytesLittleEndian(lat_16ths, lon_16ths) ==
    PackBytesWith(lat_16ths, lon_16ths, 1, LatRange, FALSE, 2)

\* A faulty packing: the latitude's seconds / 15 are shifted by 4, onto the
\* longitude's minutes % 4.
PackBytesSecondsOverlap(lat_16ths, lon_16ths) ==
    PackBytesWith(lat_16ths, lon_16ths, 1, LatRange, TRUE, 4)

\* A faulty packing: the longitude degrees are multiplied by 180, not 181.
PackBytesRange180(lat_16ths, lon_16ths) ==
    PackBytesWith(lat_16ths, lon_16ths, 1, 180, TRUE, 2)

\* A faulty packing: the latitude degrees are the major part of the index.
PackBytesLatMajor(lat_16ths, lon_16ths) ==
    PackBytesWith(lat_16ths, lon_16ths, 360, 1, TRUE, 2)

\* The six bytes encode() writes for the latitude and longitude in units.
PackBytes(lat_16ths, lon_16ths) ==
    LET lat_dms == DegreesMinutesSeconds(lat_16ths)
        lon_dms == DegreesMinutesSeconds(lon_16ths)
        dd      == lat_dms.degrees + lon_dms.degrees * LatRange
    IN  << char(Shr(dd, 8)),
           char(BitAnd(dd, 255)),
           char(BitOr(Shl(lat_dms.minutes \div 4, 4), lon_dms.minutes \div 4)),
           char(BitOr(BitOr(Shl(lat_dms.minutes % 4, 6),
                            Shl(lon_dms.minutes % 4, 4)),
                      BitOr(Shl(lat_dms.seconds \div 15, 2),
                            lon_dms.seconds \div 15))),
           char(BitOr(Shl(lat_dms.seconds % 15, 4), lon_dms.seconds % 15)),
           char(BitOr(Shl(lat_dms.sec16ths, 4), lon_dms.sec16ths)) >>

\* A faulty encode: only the southern limit of the latitude is checked.
encodeChecksSouthOnly(la, lo, str) ==
    IF la < Degrees(-90)
    THEN [ok |-> FALSE, result |-> str]
    ELSE LET lat_16ths == EncodeLat16ths(la)
             lon_16ths == EncodeLon16ths(lat_16ths, WrapLongitude(lo))
         IN  [ok |-> TRUE, result |-> str \o PackBytes(lat_16ths, lon_16ths)]

\* A faulty encode: the string is overwritten, as the older geo_encode() did.
encodeOverwrites(la, lo, str) ==
    IF la < Degrees(-90) \/ la > Degrees(90)
    THEN [ok |-> FALSE, result |-> str]
    ELSE LET lat_16ths == EncodeLat16ths(la)
             lon_16ths == EncodeLon16ths(lat_16ths, WrapLongitude(lo))
         IN  [ok |-> TRUE, result |-> PackBytes(lat_16ths, lon_16ths)]

\* GeoEncode::encode(lat, lon, result): the value returned and the string
\* afterwards, for the string str before the call.
encode(la, lo, str) ==
    IF la < Degrees(-90) \/ la > Degrees(90)
    THEN [ok |-> FALSE, result |-> str]
    ELSE LET lat_16ths == EncodeLat16ths(la)
             lon_16ths == EncodeLon16ths(lat_16ths, WrapLongitude(lo))
         IN  [ok |-> TRUE, result |-> str \o PackBytes(lat_16ths, lon_16ths)]

\* The body of decode() with the index of the byte holding the 16ths and the
\* factor applied to the high minute bits left open.
decodeWith(ptr, len, last, mfactor) ==
    LET tmp0  == BitOr(Shl(BitAnd(ptr[1], 255), 8), BitAnd(ptr[2], 255))
        lat_d == Degrees(tmp0 % LatRange)
        lon_d == Degrees(tmp0 \div LatRange)
        lat_s == (IF len > 3 THEN Seconds(BitAnd(Shr(ptr[4], 2), 3) * 15) ELSE 0)
               + (IF len > 4 THEN Seconds(BitAnd(Shr(ptr[5], 4), 15)) ELSE 0)
               + (IF len > 5 THEN Sec16ths(Shr(ptr[last], 4)) ELSE 0)
        lon_s == (IF len > 3 THEN Seconds(BitAnd(ptr[4], 3) * 15) ELSE 0)
               + (IF len > 4 THEN Seconds(BitAnd(ptr[5], 15)) ELSE 0)
               + (IF len > 5 THEN Sec16ths(BitAnd(ptr[last], 15)) ELSE 0)
        lat_m == (IF len > 2 THEN Minutes(Shr(ptr[3], 4) * mfactor) ELSE 0)
               + (IF len > 3 THEN Minutes(BitAnd(Shr(ptr[4], 6), 3)) + lat_s ELSE 0)
        lon_m == (IF len > 2 THEN Minutes(BitAnd(ptr[3], 15) * mfactor) ELSE 0)
               + (IF len > 3 THEN Minutes(BitAnd(Shr(ptr[4], 4), 3)) + lon_s ELSE 0)
    IN  [lat |-> lat_d + lat_m - Degrees(90),
         lon |-> lon_d + lon_m]

\* A faulty decode: the 16ths are read from the last byte of the buffer.
decodeReadsLastByte(ptr, len) == decodeWith(ptr, len, len, 4)

\* A faulty decode: the high minute bits are not multiplied by 4.
decodeMinutesUnscaled(ptr, len) == decodeWith(ptr, len, 6, 1)

\* A faulty decode: the latitude is clamped to 90 and the longitude wrapped
\* to below 360.
decodeClamped(ptr, len) ==
    LET d == decodeWith(ptr, len, 6, 4)
    IN  [lat |-> IF d.lat > Degrees(90) THEN Degrees(90) ELSE d.lat,
         lon |-> d.lon % Degrees(360)]

\* GeoEncode::decode(value, len): the coordinate, in ticks.  ptr[] is
\* 0-based in the source and 1-based here.  Requires len >= 2.
decode(ptr, len) ==
    LET tmp0  == BitOr(Shl(BitAnd(ptr[1], 255), 8), BitAnd(ptr[2], 255))
        lat_d == Degrees(tmp0 % LatRange)
        lon_d == Degrees(tmp0 \div LatRange)
        \* seconds, accumulated when len > 3
        lat_s == (IF len > 3 THEN Seconds(BitAnd(Shr(ptr[4], 2), 3) * 15) ELSE 0)
               + (IF len > 4 THEN Seconds(BitAnd(Shr(ptr[5], 4), 15)) ELSE 0)
               + (IF len > 5 THEN Sec16ths(Shr(ptr[6], 4)) ELSE 0)
        lon_s == (IF len > 3 THEN Seconds(BitAnd(ptr[4], 3) * 15) ELSE 0)
               + (IF len > 4 THEN Seconds(BitAnd(ptr[5], 15)) ELSE 0)
               + (IF len > 5 THEN Sec16ths(BitAnd(ptr[6], 15)) ELSE 0)
        \* minutes, accumulated when len > 2
        lat_m == (IF len > 2 THEN Minutes(Shr(ptr[3], 4) * 4) ELSE 0)
               + (IF len > 3 THEN Minutes(BitAnd(Shr(ptr[4], 6), 3)) + lat_s ELSE 0)
        lon_m == (IF len > 2 THEN Minutes(BitAnd(ptr[3], 15) * 4) ELSE 0)
               + (IF len > 3 THEN Minutes(BitAnd(Shr(ptr[4], 4), 3)) + lon_s ELSE 0)
    IN  [lat |-> lat_d + lat_m - Degrees(90),
         lon |-> lon_d + lon_m]

\* GeoEncode::decode(const std::string & value): decode(value.data(), value.size()).
decodeString(str) == decode(str, Len(str))

---------------------------------------------------------------------------
(* geoencode.cc: the decoder with a bounding box. *)

\* calc_latlon_16ths(lat, lon, lat_16ths, lon_16ths).
calc_latlon_16ths(la, lo) ==
    LET lon_16ths == round(lo)
    IN  [lat_16ths |-> round(la + Degrees(90)),
         lon_16ths |-> IF lon_16ths = UnitsPerDegree * 360 THEN 0 ELSE lon_16ths]

\* A faulty first byte: the longitude is dropped at a pole, as encode() does.
StartByteZeroAtPole(c) ==
    LET pole == c.lat_16ths = 0 \/ c.lat_16ths = UnitsPerDegree * 180
        dd   == CDiv(c.lat_16ths, UnitsPerDegree)
                + (IF pole THEN 0 ELSE CDiv(c.lon_16ths, UnitsPerDegree))
                  * LatRange
    IN  char(Shr(dd, 8))

\* The first byte the constructor derives for a corner from its units.
StartByte(c) ==
    LET dd == CDiv(c.lat_16ths, UnitsPerDegree)
              + CDiv(c.lon_16ths, UnitsPerDegree) * LatRange
    IN  char(Shr(dd, 8))

\* A faulty constructor: include_poles is never set.
DecoderWithBoundingBoxNoPoles(lat1, lon1_, lat2, lon2_) ==
    LET lon1 == WrapLongitude(lon1_)
        lon2 == WrapLongitude(lon2_)
        c1   == calc_latlon_16ths(lat1, lon1)
        c2   == calc_latlon_16ths(lat2, lon2)
    IN  [lon1 |-> lon1,
         lon2 |-> lon2,
         min_lat |-> lat1,
         max_lat |-> lat2,
         start1 |-> StartByte(c1),
         start2 |-> StartByte(c2),
         include_poles |-> FALSE,
         discontinuous_longitude_range |-> lon1 > lon2]

\* DecoderWithBoundingBox::DecoderWithBoundingBox(lat1, lon1_, lat2, lon2_):
\* the fields of the object constructed.  Requires -90 <= lat1, lat2 <= 90.
DecoderWithBoundingBox(lat1, lon1_, lat2, lon2_) ==
    LET lon1 == WrapLongitude(lon1_)
        lon2 == WrapLongitude(lon2_)
        c1   == calc_latlon_16ths(lat1, lon1)
        c2   == calc_latlon_16ths(lat2, lon2)
        IsPole(c) == c.lat_16ths = 0 \/ c.lat_16ths = UnitsPerDegree * 180
    IN  [lon1 |-> lon1,
         lon2 |-> lon2,
         min_lat |-> lat1,
         max_lat |-> lat2,
         start1 |-> StartByte(c1),
         start2 |-> StartByte(c2),
         include_poles |-> IsPole(c1) \/ IsPole(c2),
         discontinuous_longitude_range |-> lon1 > lon2]

\* The test DecoderWithBoundingBox::decode makes on the first byte: TRUE when
\* it returns false without decoding.
PrefixRejects(b, start) ==
    IF b.discontinuous_longitude_range
    THEN /\ b.start2 < start /\ start < b.start1
         /\ ~(b.include_poles /\ start = 0)
    ELSE /\ (start < b.start1 \/ b.start2 < start)
         /\ ~(b.include_poles /\ start = 0)

\* A faulty decode: the coordinate is stored as soon as it is decoded.
BoxDecodeStoresEarly(b, v, res) ==
    IF PrefixRejects(b, v[1])
    THEN [ret |-> FALSE, result |-> res]
    ELSE LET decoded == decodeString(v)
         IN  IF decoded.lat < b.min_lat \/ decoded.lat > b.max_lat
             THEN [ret |-> FALSE, result |-> decoded]
             ELSE IF decoded.lat = Degrees(-90) \/ decoded.lat = Degrees(90)
             THEN [ret |-> TRUE, result |-> decoded]
             ELSE IF b.discontinuous_longitude_range
             THEN IF b.lon2 < decoded.lon /\ decoded.lon < b.lon1
                  THEN [ret |-> FALSE, result |-> decoded]
                  ELSE [ret |-> TRUE, result |-> decoded]
             ELSE IF decoded.lon < b.lon1 \/ b.lon2 < decoded.lon
                  THEN [ret |-> FALSE, result |-> decoded]
                  ELSE [ret |-> TRUE, result |-> decoded]

\* A faulty decode: a longitude on an edge of a seam-crossing box is rejected.
BoxDecodeEdgesExcluded(b, v, res) ==
    IF PrefixRejects(b, v[1])
    THEN [ret |-> FALSE, result |-> res]
    ELSE LET decoded == decodeString(v)
         IN  IF decoded.lat < b.min_lat \/ decoded.lat > b.max_lat
             THEN [ret |-> FALSE, result |-> res]
             ELSE IF decoded.lat = Degrees(-90) \/ decoded.lat = Degrees(90)
             THEN [ret |-> TRUE, result |-> decoded]
             ELSE IF b.discontinuous_longitude_range
             THEN IF b.lon2 <= decoded.lon /\ decoded.lon <= b.lon1
                  THEN [ret |-> FALSE, result |-> res]
                  ELSE [ret |-> TRUE, result |-> decoded]
             ELSE IF decoded.lon < b.lon1 \/ b.lon2 < decoded.lon
                  THEN [ret |-> FALSE, result |-> res]
                  ELSE [ret |-> TRUE, result |-> decoded]

\* DecoderWithBoundingBox::decode(value, result) on the object b: the value
\* returned and the caller's result afterwards, res being what it held.
BoxDecode(b, v, res) ==
    IF PrefixRejects(b, v[1])
    THEN [ret |-> FALSE, result |-> res]
    ELSE LET decoded == decodeString(v)
         IN  IF decoded.lat < b.min_lat \/ decoded.lat > b.max_lat
             THEN [ret |-> FALSE, result |-> res]
             ELSE IF decoded.lat = Degrees(-90) \/ decoded.lat = Degrees(90)
             THEN [ret |-> TRUE, result |-> decoded]
             ELSE IF b.discontinuous_longitude_range
             THEN IF b.lon2 < decoded.lon /\ decoded.lon < b.lon1
                  THEN [ret |-> FALSE, result |-> res]
                  ELSE [ret |-> TRUE, result |-> decoded]
             ELSE IF decoded.lon < b.lon1 \/ b.lon2 < decoded.lon
                  THEN [ret |-> FALSE, result |-> res]
                  ELSE [ret |-> TRUE, result |-> decoded]

\* The part of DecoderWithBoundingBox::decode after its first-byte test: the
\* full decode and the checks of the decoded latitude and longitude.
DecodeAndCheck(b, v, res) ==
    LET decoded == decodeString(v)
    IN  IF decoded.lat < b.min_lat \/ decoded.lat > b.max_lat
        THEN [ret |-> FALSE, result |-> res]
        ELSE IF decoded.lat = Degrees(-90) \/ decoded.lat = Degrees(90)
        THEN [ret |-> TRUE, result |-> decoded]
        ELSE IF b.discontinuous_longitude_range
        THEN IF b.lon2 < decoded.lon /\ decoded.lon < b.lon1
             THEN [ret |-> FALSE, result |-> res]
             ELSE [ret |-> TRUE, result |-> decoded]
        ELSE IF decoded.lon < b.lon1 \/ b.lon2 < decoded.lon
             THEN [ret |-> FALSE, result |-> res]
             ELSE [ret |-> TRUE, result |-> decoded]

---------------------------------------------------------------------------
(* The arguments callers pass, as sets the model draws from. *)

\* An angle in units from its parts.
Units(d, m, s, x) ==
    d * UnitsPerDegree + m * UnitsPerMinute + s * UnitsPerSecond + x

\* Latitudes on the encoding's grid, in units north of the south pole: low,
\* middle and high values of every field, and the north pole.
LatGridUnits ==
    { Units(d, m, s, x) : d \in {0, 100, 179}, m \in {0, 6, 59},
                          s \in {0, 20, 59}, x \in {0, 7, 15} }
    \cup { Units(180, 0, 0, 0) }

\* Longitudes on the grid, in units east of 0.
LonGridUnits ==
    { Units(d, m, s, x) : d \in {0, 96, 359}, m \in {0, 6, 59},
                          s \in {0, 20, 59}, x \in {0, 7, 15} }

\* The ticks within Spread of the angle e.
Near(e) == { e + d : d \in -Spread..Spread }

\* Latitude arguments (ticks): the grid, and the ticks around both poles (those
\* beyond them are out of range) and around the equator.
CodecLats ==
    { u * Sub - Degrees(90) : u \in LatGridUnits }
    \cup Near(Degrees(-90)) \cup Near(Degrees(0)) \cup Near(Degrees(90))

\* Longitude arguments (ticks): the grid, the ticks around 0 and 360 degrees,
\* and some angles taken whole turns away.
CodecLons ==
    { u * Sub : u \in LonGridUnits }
    \cup Near(Degrees(0)) \cup Near(Degrees(360))
    \cup { e + k * Degrees(360) :
             e \in {-1, 1, Degrees(1), Minutes(6) + Seconds(20) + Sec16ths(7)},
             k \in -MaxWrap..MaxWrap }

\* The few arguments used where several records share one string.
FewLats ==
    { Degrees(-91), Degrees(-90) - 1, Degrees(-90),
      Units(100, 7, 5, 7) * Sub - Degrees(90),
      Units(179, 59, 59, 15) * Sub - Degrees(90), Degrees(90), Degrees(90) + 1 }
FewLons == { Degrees(-1), Degrees(96), Units(359, 59, 59, 15) * Sub }

\* The latitude (ticks) of a point u units north of the south pole.
LatOfUnits(u) == u * Sub - Degrees(90)

\* Corner latitudes of bounding boxes: both poles, latitudes off the grid that
\* round to a pole, and latitudes between, -15 degrees being where the first
\* byte changes within longitude degree 1.
CornerLats ==
    { Degrees(-90), Degrees(-90) + 1, Degrees(-15),
      LatOfUnits(Units(100, 7, 5, 7)), Degrees(90) - 1, Degrees(90) }

\* Corner longitudes: on and off the grid, negative, and within half a unit
\* of 360 degrees.
CornerLons ==
    { Degrees(0), Degrees(1), Units(50, 7, 5, 7) * Sub, Degrees(51) + 1,
      Degrees(-60), Units(359, 59, 59, 15) * Sub, Degrees(360) - 1 }

\* The boxes constructed: lat1 <= lat2, the longitudes in either order.
BoxArgs ==
    { b \in [lat1 : CornerLats, lon1 : CornerLons,
             lat2 : CornerLats, lon2 : CornerLons] : b.lat1 <= b.lat2 }

\* The points decoded against a box, all on the grid: the corners' grid
\* neighbours, the poles, and points either side of where the first byte
\* changes.
PointLats ==
    { Degrees(-90), Degrees(-90) + Sub, Degrees(-15) - Sub, Degrees(-15),
      LatOfUnits(Units(100, 7, 5, 7)), LatOfUnits(Units(100, 7, 5, 8)),
      Degrees(90) - Sub, Degrees(90) }
PointLons ==
    { Degrees(0), Degrees(1) - Sub, Degrees(1), Degrees(20),
      Units(50, 7, 5, 6) * Sub, Units(50, 7, 5, 7) * Sub, Units(50, 7, 5, 8) * Sub,
      Degrees(51), Degrees(51) + Sub, Degrees(299), Degrees(300) - Sub,
      Degrees(-60), Units(359, 59, 59, 15) * Sub }

\* The arguments of a second encode() whose output is compared with the
\* first's: degrees either side of where the first byte changes (latitude
\* degree 75 within longitude degree 1), the neighbours of longitude degree
\* 96, the ends of both ranges, on and off whole degrees.
OtherLats ==
    { LatOfUnits(Units(d, m, 0, 0)) : d \in {0, 74, 75, 100, 179}, m \in {0, 59} }
    \cup { Degrees(90) }
OtherLons ==
    { Units(d, m, 0, 0) * Sub : d \in {0, 1, 95, 96, 97, 359}, m \in {0, 59} }

\* What the caller's LatLongCoord holds before any decode() stores to it:
\* (0, 0), or a value no decode() produces.
Origin == [lat |-> 0, lon |-> 0]
Unset == [lat |-> Degrees(-1000), lon |-> Degrees(-1000)]

NoBox == [none |-> TRUE]

---------------------------------------------------------------------------
(* Operations. *)

\* A call encode(la, lo, result).
EncodeCall(la, lo) ==
    LET r == encode(la, lo, result)
    IN  /\ lat' = la
        /\ lon' = lo
        /\ ok' = r.ok
        /\ result' = r.result
        /\ op' = "encode"
        /\ UNCHANGED <<value, coord, box, bb, ret>>

\* A call decode(result.data() + off, len), its result stored in coord.
DecodeCall(off, len) ==
    LET v == SubSeq(result, off + 1, off + len)
    IN  /\ value' = v
        /\ coord' = decode(v, len)
        /\ op' = "decode"
        /\ UNCHANGED <<lat, lon, result, ok, box, bb, ret>>

---------------------------------------------------------------------------
(* Spec: a caller appending records to one string and decoding from it. *)

Init ==
    /\ lat = 0
    /\ lon = 0
    /\ result = << >>
    /\ ok = FALSE
    /\ value = << >>
    /\ coord = Origin
    /\ box = NoBox
    /\ bb = NoBox
    /\ ret = FALSE
    /\ op = "init"

\* encode() with any of the few arguments, while the string has room.
Encode ==
    /\ Len(result) < MaxRecords * RecordLen
    /\ \E la \in FewLats, lo \in FewLons : EncodeCall(la, lo)

\* decode() of a record of the string, of a prefix of one, or of a record
\* together with the bytes that follow it.
Decode ==
    \E off \in { i * RecordLen : i \in 0..(MaxRecords - 1) } :
        \E len \in 2..(Len(result) - off) : DecodeCall(off, len)

Next == Encode \/ Decode

Spec == Init /\ [][Next]_vars

---------------------------------------------------------------------------
(* SpecCodec: one coordinate, drawn from the argument sets, is encoded into *)
(* an empty string and decoded at every length.                            *)

InitCodec ==
    /\ lat \in CodecLats
    /\ lon \in CodecLons
    /\ result = << >>
    /\ ok = FALSE
    /\ value = << >>
    /\ coord = Origin
    /\ box = NoBox
    /\ bb = NoBox
    /\ ret = FALSE
    /\ op = "args"

\* encode(lat, lon, result) with the arguments drawn.
EncodeArgs ==
    /\ op = "args"
    /\ EncodeCall(lat, lon)

\* decode() of the first len bytes of the record.
DecodePrefix ==
    /\ op \in {"encode", "decode"}
    /\ ok
    /\ \E len \in 2..Len(result) : DecodeCall(0, len)

NextCodec == EncodeArgs \/ DecodePrefix

SpecCodec == InitCodec /\ [][NextCodec]_vars

---------------------------------------------------------------------------
(* SpecBox: a bounding box and a point on the grid are drawn; the decoder   *)
(* is constructed, the point encoded, and the record decoded with the box. *)

InitBox ==
    /\ box \in BoxArgs
    /\ lat \in PointLats
    /\ lon \in PointLons
    /\ result = << >>
    /\ ok = FALSE
    /\ value = << >>
    /\ coord = Unset
    /\ bb = NoBox
    /\ ret = FALSE
    /\ op = "args"

\* bb = DecoderWithBoundingBox(lat1, lon1, lat2, lon2).
Construct ==
    /\ op = "args"
    /\ bb' = DecoderWithBoundingBox(box.lat1, box.lon1, box.lat2, box.lon2)
    /\ op' = "construct"
    /\ UNCHANGED <<lat, lon, result, ok, value, coord, box, ret>>

\* encode(lat, lon, result) with the point drawn.
EncodePoint ==
    /\ op = "construct"
    /\ EncodeCall(lat, lon)

\* bb.decode(result, coord).
DecodeInBox ==
    /\ op = "encode"
    /\ ok
    /\ LET r == BoxDecode(bb, result, coord)
       IN  /\ ret' = r.ret
           /\ coord' = r.result
    /\ value' = result
    /\ op' = "bbdecode"
    /\ UNCHANGED <<lat, lon, result, ok, box, bb>>

NextBox == Construct \/ EncodePoint \/ DecodeInBox

SpecBox == InitBox /\ [][NextBox]_vars

---------------------------------------------------------------------------
(* SpecDegrees: a coordinate of whole degrees, any of the 181 latitudes and *)
(* 360 longitudes, is encoded; the two bytes holding the index of its       *)
(* degrees are then decoded on their own.                                   *)

\* The whole-degree latitudes and longitudes.
DegreeLats == { Degrees(d) - Degrees(90) : d \in 0..180 }
DegreeLons == { Degrees(d) : d \in 0..359 }

InitDegrees ==
    /\ lat \in DegreeLats
    /\ lon \in DegreeLons
    /\ result = << >>
    /\ ok = FALSE
    /\ value = << >>
    /\ coord = Origin
    /\ box = NoBox
    /\ bb = NoBox
    /\ ret = FALSE
    /\ op = "args"

\* The two bytes holding the 16-bit value dd, high byte first.
IndexBytes(dd) == << char(Shr(dd, 8)), char(BitAnd(dd, 255)) >>

\* decode() of a buffer of two bytes holding lat_degrees + lon_degrees * 181
\* for the degrees drawn, whether or not encode() produces that index.
DecodeIndex ==
    /\ op = "encode"
    /\ LET v == IndexBytes(CDiv(lat + Degrees(90), Degrees(1))
                           + CDiv(lon, Degrees(1)) * LatRange)
       IN  /\ value' = v
           /\ coord' = decode(v, 2)
    /\ op' = "decodeidx"
    /\ UNCHANGED <<lat, lon, result, ok, box, bb, ret>>

NextDegrees == EncodeArgs \/ DecodeIndex

SpecDegrees == InitDegrees /\ [][NextDegrees]_vars

---------------------------------------------------------------------------
(* SpecBytes: a buffer of arbitrary bytes, not produced by encode(), is     *)
(* decoded at every length from 2.                                          *)

\* The buffers: seven bytes, the first two giving indexes from 0 to 65535
\* (among them 180, 65159, 65160 and 65340, which is 180 modulo 181), the
\* others with no, some and all bits set.
ByteBuffers ==
    { << b0, b1, b2, b3, b4, b5, b6 >> :
          b0 \in {0, 1, 127, 254, 255}, b1 \in {0, 60, 135, 136, 180, 255},
          b2 \in {0, 1, 16, 255}, b3 \in {0, 1, 16, 255},
          b4 \in {0, 255}, b5 \in {0, 16, 255}, b6 \in {0, 255} }

InitBytes ==
    /\ result \in ByteBuffers
    /\ lat = 0
    /\ lon = 0
    /\ ok = FALSE
    /\ value = << >>
    /\ coord = Origin
    /\ box = NoBox
    /\ bb = NoBox
    /\ ret = FALSE
    /\ op = "init"

NextBytes == Decode

SpecBytes == InitBytes /\ [][NextBytes]_vars

---------------------------------------------------------------------------
(* SpecScenario: the box of the test's south-pole scenario, constructed and *)
(* used to decode each point the test checks against it.                   *)

\* DecoderWithBoundingBox(-90, -60, 10, 50).
ScenarioBox ==
    [lat1 |-> Degrees(-90), lon1 |-> Degrees(-60),
     lat2 |-> Degrees(10), lon2 |-> Degrees(50)]

\* The latitudes and longitudes (degrees) the test checks against the box.
ScenarioLats == { Degrees(d) : d \in {-90, 0, 10, 20, 90} }
ScenarioLons == { Degrees(d) : d \in {0, 49, 50, 51, 299, 300, 301, 360} }

InitScenario ==
    /\ box = ScenarioBox
    /\ lat \in ScenarioLats
    /\ lon \in ScenarioLons
    /\ result = << >>
    /\ ok = FALSE
    /\ value = << >>
    /\ coord = Unset
    /\ bb = NoBox
    /\ ret = FALSE
    /\ op = "args"

SpecScenario == InitScenario /\ [][NextBox]_vars

---------------------------------------------------------------------------
(* SpecThreads: one DecoderWithBoundingBox, constructed before the threads  *)
(* start, is shared by threads that call its decode() again and again, each *)
(* with a buffer and a LatLongCoord of its own.  A call takes two steps,    *)
(* the first-byte test and the full decode with its checks, and the steps   *)
(* of different threads interleave.  In this specification value, coord,    *)
(* ret and op hold one entry per thread, op[t] being where thread t is in   *)
(* its call.                                                                *)

Threads == 1..MaxThreads

\* The instances shared: the test's box across the seam with the south pole,
\* and a box that crosses neither the seam nor a pole.
ThreadBoxes ==
    { ScenarioBox,
      [lat1 |-> Degrees(-15), lon1 |-> Degrees(1),
       lat2 |-> Degrees(10), lon2 |-> Degrees(51) + 1] }

\* The buffers the threads decode: the encodings of the south pole, (0, 50),
\* (0, 51) and (20, 0).
ThreadBuffers ==
    { encode(Degrees(p[1]), Degrees(p[2]), << >>).result :
          p \in { <<-90, 0>>, <<0, 50>>, <<0, 51>>, <<20, 0>> } }

InitThreads ==
    /\ box \in ThreadBoxes
    /\ bb = DecoderWithBoundingBox(box.lat1, box.lon1, box.lat2, box.lon2)
    /\ lat = 0
    /\ lon = 0
    /\ result = << >>
    /\ ok = FALSE
    /\ value = [t \in Threads |-> << >>]
    /\ coord = [t \in Threads |-> Unset]
    /\ ret = [t \in Threads |-> FALSE]
    /\ op = [t \in Threads |-> "idle"]

\* Thread t calls bb.decode(v, coord[t]).
Call(t) ==
    /\ op[t] \in {"idle", "done"}
    /\ \E v \in ThreadBuffers : value' = [value EXCEPT ![t] = v]
    /\ op' = [op EXCEPT ![t] = "test"]
    /\ UNCHANGED <<lat, lon, result, ok, coord, box, bb, ret>>

\* A faulty first step: the first byte is kept in the object's start1.
TestCachesStart(t) ==
    /\ op[t] = "test"
    /\ bb' = [bb EXCEPT !.start1 = value[t][1]]
    /\ IF PrefixRejects(bb', value[t][1])
       THEN /\ ret' = [ret EXCEPT ![t] = FALSE]
            /\ op' = [op EXCEPT ![t] = "done"]
       ELSE /\ op' = [op EXCEPT ![t] = "check"]
            /\ UNCHANGED ret
    /\ UNCHANGED <<lat, lon, result, ok, value, coord, box>>

\* Thread t's first step in decode(): the test of the first byte against the
\* object's fields, returning false when it rejects.
Test(t) ==
    /\ op[t] = "test"
    /\ IF PrefixRejects(bb, value[t][1])
       THEN /\ ret' = [ret EXCEPT ![t] = FALSE]
            /\ op' = [op EXCEPT ![t] = "done"]
       ELSE /\ op' = [op EXCEPT ![t] = "check"]
            /\ UNCHANGED ret
    /\ UNCHANGED <<lat, lon, result, ok, value, coord, box, bb>>

\* Thread t's second step: the full decode and the checks against the
\* object's fields, the coordinate stored to the thread's own result.
Check(t) ==
    /\ op[t] = "check"
    /\ LET r == DecodeAndCheck(bb, value[t], coord[t])
       IN  /\ ret' = [ret EXCEPT ![t] = r.ret]
           /\ coord' = [coord EXCEPT ![t] = r.result]
    /\ op' = [op EXCEPT ![t] = "done"]
    /\ UNCHANGED <<lat, lon, result, ok, value, box, bb>>

NextThreads == \E t \in Threads : Call(t) \/ Test(t) \/ Check(t)

SpecThreads == InitThreads /\ [][NextThreads]_vars

---------------------------------------------------------------------------
(* What the claims compare the program with: the expected values, computed  *)
(* from the arguments without the program's own operators.                 *)

\* The whole number of units nearest to t >= 0 ticks, halves going up.
NearestUnit(t) ==
    LET q == t \div Sub
        r == t % Sub
    IN  IF 2 * r >= Sub THEN q + 1 ELSE q

SouthPoleUnits == 0 * UnitsPerDegree
NorthPoleUnits == 180 * UnitsPerDegree
FullTurnUnits == 360 * UnitsPerDegree

\* The latitude (units north of the south pole) a caller expects for la.
ExpectedLatUnits(la) == NearestUnit(la + Degrees(90))

IsPoleUnits(u) == u = SouthPoleUnits \/ u = NorthPoleUnits

\* The longitude (units) a caller expects for lo away from the poles: wrapped
\* to [0, 360), rounded, and 360 degrees taken as 0.
ExpectedLonUnits(lo) == NearestUnit(lo % Degrees(360)) % FullTurnUnits

InRange(la) == Degrees(-90) <= la /\ la <= Degrees(90)

\* The coordinate (ticks) of the units (north of the south pole, east of 0).
CoordOfUnits(lat_units, lon_units) ==
    [lat |-> lat_units * Sub - Degrees(90), lon |-> lon_units * Sub]

\* The last operation decoded a whole record.
DecodedWhole == op = "decode" /\ Len(value) = RecordLen

---------------------------------------------------------------------------
(* Claims. *)

\* C1 (SpecCodec): round trip.  Decoding the six bytes that encode(lat, lon)
\* appended gives the latitude rounded to the nearest unit and the longitude
\* wrapped to [0, 360) and rounded to the nearest unit, 360 degrees folding
\* to 0; at a pole the decoded longitude is 0.
RoundTrip ==
    DecodedWhole =>
        LET lat_units == ExpectedLatUnits(lat)
            lon_units == IF IsPoleUnits(lat_units) THEN 0
                         ELSE ExpectedLonUnits(lon)
        IN  coord = CoordOfUnits(lat_units, lon_units)

\* A round trip of a latitude off the grid and a negative longitude.
RoundTripWitness ==
    /\ DecodedWhole
    /\ lat % Sub # 0
    /\ lon < 0
    /\ coord.lon = Degrees(1)
    /\ coord.lat # lat

\* C2 (SpecCodec): pole collapse.  When the latitude quantizes to a pole,
\* encode appends, whatever the longitude, the bytes it appends for
\* longitude 0 (five zero bytes around the latitude's degrees), and the
\* decoded longitude is exactly 0.
PoleCollapse ==
    (op \in {"encode", "decode"} /\ ok /\ IsPoleUnits(ExpectedLatUnits(lat))) =>
        /\ result = encode(lat, 0, << >>).result
        /\ result = << 0, ExpectedLatUnits(lat) \div UnitsPerDegree, 0, 0, 0, 0 >>
        /\ DecodedWhole => coord.lon = 0

\* A latitude that only rounds to the north pole, with longitude 1 degree,
\* decoded to (90, 0).
PoleCollapseWitness ==
    /\ DecodedWhole
    /\ lat = Degrees(90) - 1
    /\ lon = Degrees(1)
    /\ coord = [lat |-> Degrees(90), lon |-> 0]

\* C3 (Spec): range failure.  encode called with a latitude below -90 or
\* above 90 returns false and leaves the string as it was.
RangeFailure ==
    [][(op' = "encode" /\ ~InRange(lat')) => (~ok' /\ result' = result)]_vars

\* A failed encode on a string that already holds a record.
RangeFailureWitness ==
    /\ op = "encode"
    /\ ~ok
    /\ lat > Degrees(90)
    /\ Len(result) = RecordLen

\* C4 (Spec): a successful encode appends and never overwrites.  encode with
\* a latitude in [-90, 90] returns true, the string grows by exactly six
\* bytes, the bytes it held are unchanged, and the six new bytes are the
\* record of that coordinate alone.
EncodeAppends ==
    [][(op' = "encode" /\ InRange(lat')) =>
          /\ ok'
          /\ Len(result') = Len(result) + RecordLen
          /\ SubSeq(result', 1, Len(result)) = result
          /\ SubSeq(result', Len(result) + 1, Len(result')) =
                 encode(lat', lon', << >>).result]_vars

\* Two different records appended one after the other.
EncodeAppendsWitness ==
    /\ op = "encode"
    /\ ok
    /\ Len(result) = 2 * RecordLen
    /\ SubSeq(result, 1, RecordLen) # SubSeq(result, RecordLen + 1, 2 * RecordLen)

\* C7 (SpecCodec): the decoded coordinate of an encoded record lies in
\* -90 <= lat <= 90 and 0 <= lon < 360, on whole units.
DecodedInRange ==
    DecodedWhole =>
        /\ Degrees(-90) <= coord.lat /\ coord.lat <= Degrees(90)
        /\ 0 <= coord.lon /\ coord.lon < Degrees(360)
        /\ coord.lat % Sub = 0
        /\ coord.lon % Sub = 0

\* A longitude just below 360 degrees, which rounds to 360, decoded to 0 away
\* from the poles.
DecodedInRangeWitness ==
    /\ DecodedWhole
    /\ lon = Degrees(360) - 1
    /\ ~IsPoleUnits(ExpectedLatUnits(lat))
    /\ coord.lon = 0

\* The size of the cell the first k bytes identify.
CellSize(k) ==
    CASE k = 2 -> Degrees(1)
      [] k = 3 -> Minutes(4)
      [] k = 4 -> Seconds(15)
      [] k = 5 -> Seconds(1)

\* x rounded down to a multiple of size.
RoundDown(x, size) == (x \div size) * size

\* C8 (SpecCodec): truncation.  Decoding the first k bytes of a record, k in
\* 2..5, gives on each axis the decoded value of the whole record rounded
\* down to a multiple of the k-byte cell size.
TruncationCell ==
    (op = "decode" /\ Len(value) \in 2..5) =>
        LET whole == decode(result, RecordLen)
            size  == CellSize(Len(value))
        IN  /\ coord.lat + Degrees(90) = RoundDown(whole.lat + Degrees(90), size)
            /\ coord.lon = RoundDown(whole.lon, size)

\* A 3-byte prefix decoded to a cell strictly south-west of the point, the
\* point having minutes that are no multiple of 4.
TruncationCellWitness ==
    /\ op = "decode"
    /\ Len(value) = 3
    /\ coord.lat < decode(result, RecordLen).lat
    /\ coord.lon < decode(result, RecordLen).lon
    /\ coord.lat % Degrees(1) # 0
    /\ result[4] >= 64

\* C9 (Spec): trailing bytes are ignored.  decode of a buffer longer than
\* six bytes returns what decode of its first six bytes returns.
TrailingIgnored ==
    (op = "decode" /\ Len(value) > RecordLen) =>
        coord = decode(SubSeq(value, 1, RecordLen), RecordLen)

\* A record decoded together with a different record that follows it.
TrailingIgnoredWitness ==
    /\ op = "decode"
    /\ Len(value) = 2 * RecordLen
    /\ SubSeq(value, RecordLen + 1, 2 * RecordLen) # SubSeq(value, 1, RecordLen)
    /\ value[2 * RecordLen] # value[RecordLen]

\* C10 (SpecCodec): longitude wraparound.  encode(lat, lon + 360 k) appends
\* the bytes of encode(lat, lon) for every whole k; a negative longitude
\* decodes as the longitude 360 degrees east of it; and a wrapped longitude
\* that rounds to 360 degrees decodes to 0.
LongitudeWraps ==
    /\ (op = "encode" /\ ok) =>
           \A k \in -(MaxWrap + 1)..(MaxWrap + 1) :
               encode(lat, lon + k * Degrees(360), << >>).result = result
    /\ (DecodedWhole /\ ~IsPoleUnits(ExpectedLatUnits(lat))) =>
           /\ (-Degrees(360) <= lon /\ lon < 0) =>
                  coord.lon = (NearestUnit(lon + Degrees(360)) % FullTurnUnits) * Sub
           /\ NearestUnit(lon % Degrees(360)) = FullTurnUnits => coord.lon = 0

\* The longitude one tick east of -360 degrees, on the equator, decoded to
\* (0, 0).
LongitudeWrapsWitness ==
    /\ DecodedWhole
    /\ lon = 1 - Degrees(360)
    /\ lat = Degrees(0)
    /\ coord = Origin

\* The point's latitude and longitude on the grid (ticks), as independent of
\* the program as the expected units are.
PointLat == ExpectedLatUnits(lat) * Sub - Degrees(90)
PointLon == ExpectedLonUnits(lon) * Sub

\* The direct range check of the point against the box drawn: the latitude
\* within [lat1, lat2] and, away from the poles, the longitude within the
\* wrapped [lon1, lon2], which crosses the seam when wrapped lon1 > lon2.
InBoxDirect ==
    LET w1 == box.lon1 % Degrees(360)
        w2 == box.lon2 % Degrees(360)
    IN  /\ box.lat1 <= PointLat /\ PointLat <= box.lat2
        /\ \/ IsPoleUnits(ExpectedLatUnits(lat))
           \/ IF w1 > w2 THEN PointLon >= w1 \/ PointLon <= w2
                         ELSE w1 <= PointLon /\ PointLon <= w2

\* C5 (SpecBox): bounding-box equivalence.  DecoderWithBoundingBox(lat1,
\* lon1, lat2, lon2).decode(encode(lat, lon)) returns true iff the direct
\* range check puts the point in the box.
BoxEquivalence ==
    op = "bbdecode" => (ret <=> InBoxDirect)

\* C6 (SpecBox): DecoderWithBoundingBox::decode stores its result only when
\* it accepts.  When it returns true the caller's coordinate is what plain
\* decode gives for the buffer; when it returns false the caller's coordinate
\* is what it was before the call.
BoxDecodeStores ==
    [][op' = "bbdecode" =>
          IF ret' THEN coord' = decodeString(value')
                  ELSE coord' = coord]_vars

\* A point rejected after the full decode (not by its first byte), the
\* caller's coordinate still unset.
BoxDecodeStoresWitness ==
    /\ op = "bbdecode"
    /\ ~ret
    /\ ~PrefixRejects(bb, value[1])
    /\ coord = Unset

\* The point drawn is (la, lo), in degrees.
PointIs(la, lo) == lat = Degrees(la) /\ lon = Degrees(lo)

\* C11 (SpecScenario): the box DecoderWithBoundingBox(-90, -60, 10, 50)
\* accepts the encodings of (-90, 0), (-90, 300), (0, 50), (0, 300) and
\* (10, 0), and rejects those of (0, 51), (0, 299), (20, 0) and (90, 0).
ScenarioOutcomes ==
    (op = "bbdecode" /\ box = ScenarioBox) =>
        /\ (\/ PointIs(-90, 0) \/ PointIs(-90, 300) \/ PointIs(0, 50)
            \/ PointIs(0, 300) \/ PointIs(10, 0)) => ret
        /\ (\/ PointIs(0, 51) \/ PointIs(0, 299) \/ PointIs(20, 0)
            \/ PointIs(90, 0)) => ~ret

\* The point (0, 50), on the eastern edge of the box, accepted and stored.
ScenarioOutcomesWitness ==
    /\ op = "bbdecode"
    /\ box = ScenarioBox
    /\ PointIs(0, 50)
    /\ ret
    /\ coord = [lat |-> Degrees(0), lon |-> Degrees(50)]

\* The degrees the encoder stores for the arguments: the latitude's degrees
\* north of the south pole and the longitude's degrees east of 0, the
\* longitude being 0 at a pole.
LatDegrees == ExpectedLatUnits(lat) \div UnitsPerDegree
LonDegrees ==
    IF IsPoleUnits(ExpectedLatUnits(lat)) THEN 0
    ELSE ExpectedLonUnits(lon) \div UnitsPerDegree

\* The composite index of the degrees.
DegreeIndex == LatDegrees + LonDegrees * LatRange

\* C12 (SpecCodec): zero bytes.  encode(10, 96) appends six bytes of which
\* the third is 0; for any coordinate of whole degrees on both axes the last
\* four bytes are 0 and the first two hold lat_degrees + lon_degrees * 181,
\* high byte first (lat_degrees counted from the south pole, lon_degrees
\* being 0 at a pole).
ZeroBytes ==
    /\ (op = "encode" /\ ok /\ PointIs(10, 96)) =>
           Len(result) = RecordLen /\ result[3] = 0
    /\ (op = "encode" /\ ok /\ lat % Degrees(1) = 0 /\ lon % Degrees(1) = 0) =>
           result = << DegreeIndex \div 256, DegreeIndex % 256, 0, 0, 0, 0 >>

\* encode(10, 96): the bytes 0x44 0x44 and four zero bytes.
ZeroBytesWitness ==
    /\ op = "encode"
    /\ ok
    /\ PointIs(10, 96)
    /\ result = << 68, 68, 0, 0, 0, 0 >>

\* C13 (SpecBox): the prefix shortcut is consistent with the full decode.
\* For every box with lat1 <= lat2 and every buffer produced by encode,
\* DecoderWithBoundingBox::decode returns what the same decode returns with
\* its first-byte test removed.
PrefixConsistent ==
    op = "bbdecode" => ret = DecodeAndCheck(bb, value, Unset).ret

\* The composite degree index of a corner (la, lo): the degrees of its latitude
\* in units and of its wrapped longitude in units, the longitude kept whatever
\* the latitude is.
CornerIndex(la, lo) ==
    ExpectedLatUnits(la) \div UnitsPerDegree
    + (ExpectedLonUnits(lo) \div UnitsPerDegree) * LatRange

\* The first byte encode() gives for (la, lo).
EncodedStart(la, lo) == encode(la, lo, << >>).result[1]

\* The corner (la, lo) is at a pole once its latitude is in units.
CornerAtPole(la) == IsPoleUnits(ExpectedLatUnits(la))

\* C14 as stated (SpecBox): for every box with corner latitudes in [-90, 90],
\* start1 is byte 0 of encode(lat1, lon1) and start2 is byte 0 of
\* encode(lat2, lon2).
StartIsEncodedByte ==
    op # "args" =>
        /\ bb.start1 = EncodedStart(box.lat1, box.lon1)
        /\ bb.start2 = EncodedStart(box.lat2, box.lon2)

\* C14 amended (SpecBox): start1 and start2 are the high byte of the composite
\* degree index of the corner, the index taking the corner's own wrapped
\* longitude even when the corner's latitude is a pole; each equals byte 0 of
\* the encoding of its corner when that corner's latitude is not a pole.
StartBytes ==
    op # "args" =>
        /\ bb.start1 = CornerIndex(box.lat1, box.lon1) \div 256
        /\ bb.start2 = CornerIndex(box.lat2, box.lon2) \div 256
        /\ ~CornerAtPole(box.lat1) =>
               bb.start1 = EncodedStart(box.lat1, box.lon1)
        /\ ~CornerAtPole(box.lat2) =>
               bb.start2 = EncodedStart(box.lat2, box.lon2)

\* A box with its southern corner at the south pole and longitude -60: start1
\* is the first byte of longitude degree 300 while the pole encodes to 0; the
\* northern corner is off the poles and start2 is its encoding's first byte.
StartBytesWitness ==
    /\ op = "construct"
    /\ box.lat1 = Degrees(-90)
    /\ box.lon1 = Degrees(-60)
    /\ bb.start1 = 212
    /\ EncodedStart(box.lat1, box.lon1) = 0
    /\ ~CornerAtPole(box.lat2)
    /\ bb.start2 = EncodedStart(box.lat2, box.lon2)
    /\ bb.start2 > 0

\* C15 (SpecBox): pole handling in the box decoder.  Every encoding of a pole
\* has first byte 0.  A box whose lat1 is -90 accepts the encoding of the south
\* pole at any longitude, and a box whose lat2 is 90 that of the north pole,
\* whatever lon1 and lon2 are; a box whose latitude range excludes a pole
\* rejects every encoding of that pole.
PoleHandling ==
    /\ (op \in {"encode", "bbdecode"} /\ ok /\ CornerAtPole(lat)) =>
           result[1] = 0
    /\ op = "bbdecode" =>
           /\ (lat = Degrees(-90) /\ box.lat1 = Degrees(-90)) => ret
           /\ (lat = Degrees(90) /\ box.lat2 = Degrees(90)) => ret
           /\ (lat = Degrees(-90) /\ box.lat1 > Degrees(-90)) => ~ret
           /\ (lat = Degrees(90) /\ box.lat2 < Degrees(90)) => ~ret

\* The south pole, given with a longitude west of a box that does not cross
\* the seam and whose first bytes start above 0, accepted.
PoleHandlingWitness ==
    /\ op = "bbdecode"
    /\ lat = Degrees(-90)
    /\ lon = Degrees(20)
    /\ box.lat1 = Degrees(-90)
    /\ ~bb.discontinuous_longitude_range
    /\ bb.lon1 > Degrees(20)
    /\ bb.start1 > 0
    /\ value[1] = 0
    /\ ret

\* An angle of u units split into degrees, minutes, seconds and sixteenths.
FieldsOf(u) ==
    [degrees  |-> u \div UnitsPerDegree,
     minutes  |-> (u \div UnitsPerMinute) % 60,
     seconds  |-> (u \div UnitsPerSecond) % 60,
     sec16ths |-> u % UnitsPerSecond]

\* The fields of the quantized latitude and longitude of the arguments, the
\* longitude being 0 at a pole.
LatFields == FieldsOf(ExpectedLatUnits(lat))
LonFields ==
    FieldsOf(IF CornerAtPole(lat) THEN 0 ELSE ExpectedLonUnits(lon))

\* The six bytes of the layout, fields placed by multiplication and addition.
LayoutBytes ==
    LET a  == LatFields
        o  == LonFields
        dd == a.degrees + o.degrees * LatRange
    IN  << dd \div 256,
           dd % 256,
           (a.minutes \div 4) * 16 + (o.minutes \div 4),
           (a.minutes % 4) * 64 + (o.minutes % 4) * 16
               + (a.seconds \div 15) * 4 + (o.seconds \div 15),
           (a.seconds % 15) * 16 + (o.seconds % 15),
           a.sec16ths * 16 + o.sec16ths >>

\* Every field of f fits the bits the layout gives it.
FieldsFit(f) ==
    /\ f.minutes \div 4 \in 0..15
    /\ f.minutes % 4 \in 0..3
    /\ f.seconds \div 15 \in 0..3
    /\ f.seconds % 15 \in 0..15
    /\ f.sec16ths \in 0..15

\* C16 (SpecCodec): exact byte layout.  For every valid (lat, lon), with each
\* quantized angle split into degrees, minutes, seconds and sixteenths, the
\* six bytes appended are: bytes 0..1 = lat_degrees + lon_degrees * 181, high
\* byte first; byte 2 = (lat_minutes / 4) << 4 | lon_minutes / 4; byte 3 =
\* (lat_minutes % 4) << 6 | (lon_minutes % 4) << 4 | (lat_seconds / 15) << 2
\* | lon_seconds / 15; byte 4 = (lat_seconds % 15) << 4 | lon_seconds % 15;
\* byte 5 = lat_sixteenths << 4 | lon_sixteenths.  Every field fits its bit
\* width, so the fields do not overlap and every byte is in 0..255.
ByteLayout ==
    (op = "encode" /\ ok) =>
        /\ result = LayoutBytes
        /\ FieldsFit(LatFields)
        /\ FieldsFit(LonFields)
        /\ LatFields.degrees + LonFields.degrees * LatRange < 65536
        /\ \A i \in 1..RecordLen : result[i] \in 0..255

\* The highest latitude below the north pole with the highest longitude:
\* every field at its maximum, FE 86 EE FF EE FF.
ByteLayoutWitness ==
    /\ op = "encode"
    /\ ok
    /\ lat = LatOfUnits(Units(179, 59, 59, 15))
    /\ lon = Units(359, 59, 59, 15) * Sub
    /\ result = << 254, 134, 238, 255, 238, 255 >>

\* The degrees of the arguments as given (the longitude not dropped at a
\* pole), and their composite index.
ArgLatDegrees == (lat + Degrees(90)) \div Degrees(1)
ArgLonDegrees == lon \div Degrees(1)
ArgIndex == ArgLatDegrees + ArgLonDegrees * LatRange

\* C17 (SpecDegrees): the composite degree index is unique and recoverable.
\* For every lat_degree in 0..180 and lon_degree in 0..359 the index
\* lat_degree + lon_degree * 181 lies in 0..65159; no pair with the same or a
\* neighbouring lon_degree has the same index; decode recovers the pair as
\* index % 181 and index / 181; and the first byte encode writes is its index
\* (that of the pair with lon_degree 0 at a pole) / 256 rounded down.
DegreeIndexRecoverable ==
    /\ ArgLatDegrees \in 0..180 /\ ArgLonDegrees \in 0..359
    /\ ArgIndex \in 0..65159
    /\ op = "args" =>
           \A a \in 0..180 :
               \A b \in {ArgLonDegrees - 1, ArgLonDegrees, ArgLonDegrees + 1} :
                   a + b * LatRange = ArgIndex =>
                       a = ArgLatDegrees /\ b = ArgLonDegrees
    /\ ArgIndex % LatRange = ArgLatDegrees
    /\ ArgIndex \div LatRange = ArgLonDegrees
    /\ (op = "encode" /\ ok) =>
           /\ result[1] * 256 + result[2] = DegreeIndex
           /\ result[1] = DegreeIndex \div 256
           /\ ~CornerAtPole(lat) => DegreeIndex = ArgIndex
    /\ op = "decodeidx" =>
           /\ value = << ArgIndex \div 256, ArgIndex % 256 >>
           /\ coord = [lat |-> Degrees(ArgLatDegrees) - Degrees(90),
                       lon |-> Degrees(ArgLonDegrees)]

\* The largest index, 180 + 359 * 181 = 65159 (bytes FE 87), which encode()
\* never writes, decoded to latitude 90 and longitude 359.
DegreeIndexRecoverableWitness ==
    /\ op = "decodeidx"
    /\ value = << 254, 135 >>
    /\ coord = [lat |-> Degrees(90), lon |-> Degrees(359)]
    /\ result = << 0, 180, 0, 0, 0, 0 >>

\* The degrees an encoding of (la, lo) holds: those of the quantized latitude
\* and longitude, the longitude being 0 at a pole.
OutLatDegrees(la) == ExpectedLatUnits(la) \div UnitsPerDegree
OutLonDegrees(la, lo) ==
    IF CornerAtPole(la) THEN 0 ELSE ExpectedLonUnits(lo) \div UnitsPerDegree

\* (lon_degree, lat_degree) of (la1, lo1) is lexicographically at most that
\* of (la2, lo2).
DegreesLeq(la1, lo1, la2, lo2) ==
    \/ OutLonDegrees(la1, lo1) < OutLonDegrees(la2, lo2)
    \/ /\ OutLonDegrees(la1, lo1) = OutLonDegrees(la2, lo2)
       /\ OutLatDegrees(la1) <= OutLatDegrees(la2)

\* The 16-bit value of the first two bytes of a record, high byte first.
Key16(r) == r[1] * 256 + r[2]

\* C18 (SpecCodec): the prefix byte is a monotonic key over the degree index.
\* For the record just encoded and the record encode() gives for any other
\* coordinate: whichever has the lexicographically smaller or equal
\* (lon_degree, lat_degree) has the smaller or equal 16-bit value in bytes
\* 0..1, and the smaller or equal byte 0.
PrefixMonotonic ==
    (op = "encode" /\ ok) =>
        \A la2 \in OtherLats, lo2 \in OtherLons :
            LET other == encode(la2, lo2, << >>).result
            IN  /\ DegreesLeq(lat, lon, la2, lo2) =>
                       /\ Key16(result) <= Key16(other)
                       /\ result[1] <= other[1]
                /\ DegreesLeq(la2, lo2, lat, lon) =>
                       /\ Key16(other) <= Key16(result)
                       /\ other[1] <= result[1]

\* A record of latitude degree 179 and longitude degree 96 (first byte 68),
\* with another of latitude degree 0 and longitude degree 97 after it in the
\* order: its first byte is 68 as well, its 16-bit value greater.
PrefixMonotonicWitness ==
    /\ op = "encode"
    /\ ok
    /\ LatDegrees = 179
    /\ LonDegrees = 96
    /\ result[1] = 68
    /\ LET other == encode(Degrees(-90) + Minutes(59), Degrees(97), << >>).result
       IN  /\ Degrees(-90) + Minutes(59) \in OtherLats
           /\ Degrees(97) \in OtherLons
           /\ DegreesLeq(lat, lon, Degrees(-90) + Minutes(59), Degrees(97))
           /\ other[1] = 68
           /\ Key16(result) < Key16(other)

\* The 16-bit index in the first two bytes of the buffer decoded.
ValueIndex == value[1] * 256 + value[2]

\* Some minute or second field of the latitude is non-zero in the bytes that
\* decode() read.
LatFieldsNonZero ==
    \/ Len(value) > 2 /\ value[3] \div 16 > 0
    \/ Len(value) > 3 /\ ((value[4] \div 4) % 4) + (value[4] \div 64) > 0
    \/ Len(value) > 4 /\ value[5] \div 16 > 0
    \/ Len(value) > 5 /\ value[6] \div 16 > 0

\* C19 (SpecBytes): decode is total and permissive.  For every byte sequence
\* of length >= 2 decode returns a coordinate, with no validation and no
\* clamping: the latitude is at least the index's degrees (index % 181) - 90
\* and never below -90, the longitude at least index / 181; a degree index of
\* 180 with a non-zero minute or second field gives a latitude above 90, and
\* a 16-bit index above 65159 a longitude of 360 or more.
DecodePermissive ==
    op = "decode" =>
        /\ coord.lat \in Int /\ coord.lon \in Int
        /\ coord.lat >= Degrees(-90)
        /\ coord.lat >= Degrees(ValueIndex % LatRange) - Degrees(90)
        /\ coord.lat < Degrees(ValueIndex % LatRange) - Degrees(90) + Degrees(2)
        /\ coord.lon >= Degrees(ValueIndex \div LatRange)
        /\ coord.lon < Degrees(ValueIndex \div LatRange) + Degrees(2)
        /\ (ValueIndex % LatRange = 180 /\ LatFieldsNonZero) =>
               coord.lat > Degrees(90)
        /\ ValueIndex > 65159 => coord.lon >= Degrees(360)

\* The buffer FF 3C FF FF FF FF and a further byte: index 65340, degree index
\* 180 and longitude degree 360, every field at its maximum; the latitude
\* decoded is above 90 and the longitude above 360.
DecodePermissiveWitness ==
    /\ op = "decode"
    /\ ~ok
    /\ value = << 255, 60, 255, 255, 255, 255 >>
    /\ coord.lat > Degrees(90)
    /\ coord.lon > Degrees(360)

\* C20 (SpecThreads): the bounding-box decoder is immutable after
\* construction.  No step of a decode() call changes lon1, lon2, min_lat,
\* max_lat, start1, start2, include_poles or discontinuous_longitude_range;
\* and every call that completes, whatever calls ran before it or are under
\* way in other threads, returns what decode() returns for its buffer on the
\* object as constructed, storing the decoded coordinate when that is true.
BoxImmutable ==
    [][/\ bb' = bb
       /\ bb' = DecoderWithBoundingBox(box.lat1, box.lon1, box.lat2, box.lon2)
       /\ \A t \in Threads :
              (op[t] # "done" /\ op'[t] = "done") =>
                  LET r == BoxDecode(bb, value'[t], coord[t])
                  IN  /\ ret'[t] = r.ret
                      /\ coord'[t] = r.result]_vars

\* Thread 1 has had a buffer accepted and thread 2, which had one accepted
\* in an earlier call, a different buffer rejected, on the same object.
BoxImmutableWitness ==
    /\ op[1] = "done" /\ ret[1] /\ coord[1] = decodeString(value[1])
    /\ op[2] = "done" /\ ~ret[2] /\ coord[2] # Unset
    /\ value[1] # value[2]

\* The units encode() splits for the arguments: the latitude north of the
\* south pole, and the longitude, 0 at a pole.
SplitLatUnits == ExpectedLatUnits(lat)
SplitLonUnits == IF CornerAtPole(lat) THEN 0 ELSE ExpectedLonUnits(lon)

\* The split of u units is the one the quotients and remainders give, its
\* parts are in range (the degrees at most maxdeg) and add up to u.
SplitExact(u, maxdeg) ==
    LET f == DegreesMinutesSeconds(u)
    IN  /\ f.degrees = u \div 57600
        /\ f.minutes = (u % 57600) \div 960
        /\ f.seconds = (u % 960) \div 16
        /\ f.sec16ths = u % 16
        /\ f.degrees \in 0..maxdeg
        /\ f.minutes \in 0..59
        /\ f.seconds \in 0..59
        /\ f.sec16ths \in 0..15
        /\ f.degrees * 57600 + f.minutes * 960 + f.seconds * 16 + f.sec16ths = u

\* C21 (SpecCodec): the angle splitter.  For the units encode() splits, in
\* 0..10368000 for a latitude and 0..20735999 for a longitude, degrees =
\* units / 57600, minutes = (units % 57600) / 960, seconds = (units % 960) /
\* 16 and sixteenths = units % 16; minutes and seconds are in 0..59,
\* sixteenths in 0..15, degrees at most 180 for a latitude and 359 for a
\* longitude; and degrees * 57600 + minutes * 960 + seconds * 16 + sixteenths
\* = units.
AngleSplitter ==
    (op = "encode" /\ ok) =>
        /\ SplitLatUnits \in 0..10368000
        /\ SplitLonUnits \in 0..20735999
        /\ SplitExact(SplitLatUnits, 180)
        /\ SplitExact(SplitLonUnits, 359)

\* The largest longitude, 20735999 units, split into 359 degrees, 59 minutes,
\* 59 seconds and 15 sixteenths, with a latitude of 100 degrees 6 minutes 20
\* seconds 7 sixteenths.
AngleSplitterWitness ==
    /\ op = "encode"
    /\ ok
    /\ SplitLonUnits = 20735999
    /\ SplitLatUnits = Units(100, 6, 20, 7)
    /\ DegreesMinutesSeconds(SplitLonUnits) =
           [degrees |-> 359, minutes |-> 59, seconds |-> 59, sec16ths |-> 15]
    /\ DegreesMinutesSeconds(SplitLatUnits) =
           [degrees |-> 100, minutes |-> 6, seconds |-> 20, sec16ths |-> 7]
    /\ result = << 254, 55, 30, 183, 94, 127 >>

===========================================================================
